---- MODULE Spec2Model ----
(***************************************************************************)
(* Model of app.py: the Streamlit business-intelligence dashboard.         *)
(*                                                                         *)
(*  - ContractGenerator.create_pdf, the greedy word wrap with page         *)
(*    overflow, step by step over the text returned by the completion      *)
(*    service;                                                             *)
(*  - BusinessAnalyzer.analyze_business_metrics and the handlers of the    *)
(*    seven user-triggered actions with their calls to the completion      *)
(*    service, which may succeed or raise.                                 *)
(*                                                                         *)
(* A Python str is a sequence of one-character strings.                    *)
(***************************************************************************)
EXTENDS Integers, Sequences, FiniteSets, TLC

(***************************************************************************)
(* Bounds of the model.                                                    *)
(***************************************************************************)
\* every content of at most MaxLen characters is an input of create_pdf
MaxLen == 5
\* long contents are a word of 1..MaxWordLen letters and a space or a line
\* break, MinRepeat..MaxRepeat times
MaxWordLen == 2
MinRepeat == 34
MaxRepeat == 36
\* the reference scenario of the specification: 1..MaxRefWords distinct words
\* of RefWordLen characters on one source line, each character 6 units wide
MaxRefWords == 40
RefWordLen == 10
\* the numeric form inputs of the analytics page are drawn from 0..MaxAmount
MaxAmount == 2
\* the longest tail of a content of the page-count comparison
MonoTailLen == 3

(***************************************************************************)
(* Program constants of create_pdf.                                        *)
(***************************************************************************)
\* reportlab.lib.pagesizes.letter, unpacked at line 641
PageWidth == 612
PageHeight == 792
\* y = height - 50 (lines 647, 668)
TopMargin == 50
\* pdf.drawString(50, y, ...) (lines 661, 673)
LeftMargin == 50
\* ... > width - 100 (line 658)
SideMargins == 100
\* y -= 20 (lines 662, 674)
LineHeight == 20
\* if y < 50 (line 666)
BottomMargin == 50

(***************************************************************************)
(* Strings.                                                                *)
(***************************************************************************)
Chars == {"a", "W", " ", "\n"}

\* the characters of Chars that str.split() treats as whitespace
Whitespace == {" ", "\n"}

\* all strings of at most n characters
Str(n) == UNION {[1..k -> Chars] : k \in 0..n}

RECURSIVE Repeat(_, _)
Repeat(unit, n) == IF n = 0 THEN <<>> ELSE unit \o Repeat(unit, n - 1)

\* the index of the first character of s that is in set, or 0
FirstIn(s, set) ==
    IF \E i \in 1..Len(s) : s[i] \in set
    THEN CHOOSE i \in 1..Len(s) : s[i] \in set /\ \A j \in 1..(i - 1) : s[j] \notin set
    ELSE 0

\* content.split('\n'): the pieces between line breaks, empty pieces included
RECURSIVE split_lines(_)
split_lines(s) ==
    LET i == FirstIn(s, {"\n"})
    IN  IF i = 0 THEN <<s>>
        ELSE <<SubSeq(s, 1, i - 1)>> \o split_lines(SubSeq(s, i + 1, Len(s)))

\* line.split(): the maximal runs of non-whitespace characters
RECURSIVE split(_)
split(s) ==
    IF s = <<>> THEN <<>>
    ELSE IF s[1] \in Whitespace THEN split(Tail(s))
    ELSE LET i == FirstIn(s, Whitespace)
         IN  IF i = 0 THEN <<s>>
             ELSE <<SubSeq(s, 1, i - 1)>> \o split(SubSeq(s, i + 1, Len(s)))

\* ' '.join(words)
RECURSIVE join(_)
join(ws) ==
    IF ws = <<>> THEN <<>>
    ELSE IF Len(ws) = 1 THEN ws[1]
    ELSE ws[1] \o <<" ">> \o join(Tail(ws))

(***************************************************************************)
(* Font metrics: the advance width of each character, in points.           *)
(***************************************************************************)
\* the fixed-pitch metric of the reference scenario
Mono6 == [c \in Chars |-> 6]

\* a metric with wide glyphs, under which few characters fill a line
Wide == [c \in Chars |-> CASE c = "a" -> 100
                           [] c = "W" -> 300
                           [] c = " " -> 50
                           [] OTHER   -> 0]

\* pdf.stringWidth(text) in the current font
RECURSIVE stringWidth(_, _)
stringWidth(font, s) ==
    IF s = <<>> THEN 0 ELSE font[s[1]] + stringWidth(font, Tail(s))

(***************************************************************************)
(* The inputs of create_pdf.                                               *)
(***************************************************************************)
\* the i-th word of the reference scenario: the binary digits of i
RefWord(i) == [j \in 1..RefWordLen |-> IF (i \div (2 ^ (j - 1))) % 2 = 1 THEN "W" ELSE "a"]

RefContent(n) == join([i \in 1..n |-> RefWord(i)])

\* the words of at most MaxWordLen letters
Words == UNION {[1..k -> Chars \ Whitespace] : k \in 1..MaxWordLen}

LongContents ==
    {Repeat(word \o <<sep>>, n) :
        word \in Words, sep \in Whitespace, n \in MinRepeat..MaxRepeat}

\* a content and the metric of the font it is measured in
PdfInputs ==
    ((Str(MaxLen) \cup LongContents) \X {Wide})
        \cup ({RefContent(n) : n \in 1..MaxRefWords} \X {Mono6})

(***************************************************************************)
(* ContractGenerator.create_pdf.  The state of one call is a record:       *)
(* y, lines, words, current_line are the locals of the code; li and wi     *)
(* are the positions of the two for loops; page holds the drawString calls *)
(* on the canvas's current page, pages the pages closed by showPage or     *)
(* save; at is the place in the code.                                      *)
(***************************************************************************)
\* a first line at the top edge of the page
MutStartY == PageHeight

StartY == PageHeight - TopMargin

NoPdf ==
    [content |-> <<>>, font |-> Wide, at |-> "none", y |-> 0, lines |-> <<>>, li |-> 0,
     words |-> <<>>, wi |-> 0, current_line |-> <<>>, pages |-> <<>>, page |-> <<>>]

\* lines 635-648: the canvas, the font, y and the split into lines
create_pdf_begin(content, font) ==
    [NoPdf EXCEPT !.content = content, !.font = font, !.at = "line",
                  !.y = StartY, !.lines = split_lines(content)]

\* pdf.drawString(50, y, text); line is the source line being wrapped
drawString(p, text) ==
    Append(p.page, [x |-> LeftMargin, y |-> p.y, text |-> text, line |-> p.li])

\* a variant that allows for one side margin only
MutOverflows(font, cl) == stringWidth(font, join(cl)) > PageWidth - LeftMargin

\* line 658: pdf.stringWidth(' '.join(current_line)) > width - 100
Overflows(font, cl) == stringWidth(font, join(cl)) > PageWidth - SideMargins

\* line 666: if y < 50
NeedNewPage(y) == y < BottomMargin

\* a variant that starts the next drawn line empty
MutCarryOver(word) == <<>>

\* line 663: current_line = [word]
CarryOver(word) == <<word>>

\* a variant that draws the line buffer even when it is empty
MutHasRemaining(cl) == TRUE

\* line 672: if current_line
HasRemaining(cl) == cl # <<>>

\* lines 650-653: the next source line, split into words
next_line(p) ==
    [p EXCEPT !.li = p.li + 1, !.words = split(p.lines[p.li + 1]), !.wi = 0,
              !.current_line = <<>>, !.at = "word"]

\* lines 655-669: one iteration of the loop over the words
process_word(p) ==
    LET word == p.words[p.wi + 1]
        appended == Append(p.current_line, word)
    IN  IF Overflows(p.font, appended)
        THEN LET drawn == drawString(p, join(p.current_line))
                 y1 == p.y - LineHeight
             IN  IF NeedNewPage(y1)
                 THEN [p EXCEPT !.wi = p.wi + 1, !.current_line = CarryOver(word),
                                !.pages = Append(p.pages, drawn), !.page = <<>>,
                                !.y = StartY]
                 ELSE [p EXCEPT !.wi = p.wi + 1, !.current_line = CarryOver(word),
                                !.page = drawn, !.y = y1]
        ELSE [p EXCEPT !.wi = p.wi + 1, !.current_line = appended]

\* lines 671-674: the remaining words of the source line
finish_line(p) ==
    IF HasRemaining(p.current_line)
    THEN [p EXCEPT !.page = drawString(p, join(p.current_line)),
                   !.y = p.y - LineHeight, !.at = "line"]
    ELSE [p EXCEPT !.at = "line"]

\* lines 676-678: pdf.save() closes the last page
save(p) == [p EXCEPT !.pages = Append(p.pages, p.page), !.page = <<>>, !.at = "saved"]

\* the step create_pdf takes next
pdf_step(p) ==
    CASE p.at = "line" /\ p.li < Len(p.lines) -> next_line(p)
      [] p.at = "line" /\ p.li = Len(p.lines) -> save(p)
      [] p.at = "word" /\ p.wi < Len(p.words) -> process_word(p)
      [] p.at = "word" /\ p.wi = Len(p.words) -> finish_line(p)

RECURSIVE pdf_run(_)
pdf_run(p) == IF p.at = "saved" THEN p ELSE pdf_run(pdf_step(p))

\* the whole call
create_pdf(content, font) == pdf_run(create_pdf_begin(content, font))

(***************************************************************************)
(* BusinessAnalyzer.analyze_business_metrics.  The inputs are the values   *)
(* of the st.number_input widgets (all with min_value 0); a metric is kept *)
(* as the exact ratio num/den.                                             *)
(***************************************************************************)
Amounts == 0..MaxAmount

MetricsInputs ==
    [current_revenue : Amounts, previous_revenue : Amounts, net_profit : Amounts,
     marketing_spend : Amounts, new_customers : Amounts, total_investment : Amounts,
     average_order_value : {1, 2}, purchase_frequency : {1, 2}, customer_lifespan : {1, 2}]

NoData ==
    [current_revenue |-> 0, previous_revenue |-> 0, net_profit |-> 0,
     marketing_spend |-> 0, new_customers |-> 0, total_investment |-> 0,
     average_order_value |-> 0, purchase_frequency |-> 0, customer_lifespan |-> 0]

Ratio(n, d) == [num |-> n, den |-> d]

NoMetrics ==
    [revenue_growth |-> Ratio(0, 1), profit_margin |-> Ratio(0, 1),
     customer_acquisition_cost |-> Ratio(0, 1), customer_lifetime_value |-> Ratio(0, 1),
     roi |-> Ratio(0, 1)]

\* the return value None
None == [ok |-> FALSE, metrics |-> NoMetrics, error |-> <<>>]

\* the divisors of lines 98-102, in evaluation order
Divisors(d) ==
    <<d.previous_revenue, d.current_revenue, d.new_customers, d.total_investment>>

\* a variant in which a zero customer count does not raise
MutRaisesZeroDivision(d) ==
    d.previous_revenue = 0 \/ d.current_revenue = 0 \/ d.total_investment = 0

\* Python's `/` raises ZeroDivisionError on a zero divisor, float or int
RaisesZeroDivision(d) == \E i \in 1..Len(Divisors(d)) : Divisors(d)[i] = 0

\* lines 94-107: the metrics, or st.error(...) and None
analyze_business_metrics(d) ==
    IF RaisesZeroDivision(d)
    THEN [None EXCEPT !.error = <<"Error analyzing metrics: ", "float division by zero">>]
    ELSE [ok |-> TRUE, error |-> <<>>,
          metrics |->
            [revenue_growth |-> Ratio((d.current_revenue - d.previous_revenue) * 100,
                                      d.previous_revenue),
             profit_margin |-> Ratio(d.net_profit * 100, d.current_revenue),
             customer_acquisition_cost |-> Ratio(d.marketing_spend, d.new_customers),
             customer_lifetime_value |->
                Ratio(d.average_order_value * d.purchase_frequency * d.customer_lifespan, 1),
             roi |-> Ratio((d.net_profit - d.total_investment) * 100, d.total_investment)]]

(***************************************************************************)
(* process_uploaded_file.                                                  *)
(***************************************************************************)
\* Path(uploaded_file.name).suffix of the uploaded files considered
Suffixes ==
    {".txt", ".TXT", ".docx", ".pdf", ".Pdf", ".pptx", ".csv", ".CSV", ".doc", ""}

\* a comparison of the suffix as it was typed
Mutlower(suffix) == suffix

\* str.lower()
lower(suffix) ==
    CASE suffix = ".TXT" -> ".txt"
      [] suffix = ".Pdf" -> ".pdf"
      [] suffix = ".CSV" -> ".csv"
      [] OTHER -> suffix

\* the branches of lines 140-155
Supported == {".txt", ".docx", ".pdf", ".pptx"}

Uploads == [suffix : Suffixes, readable : BOOLEAN, button : BOOLEAN]

NoUpload == [suffix |-> "", readable |-> FALSE, button |-> FALSE]

\* lines 136-159: the text, or the exception raised at line 159; readable
\* says whether the decoder of the format accepts the bytes
process_uploaded_file(u) ==
    LET file_extension == lower(u.suffix)
    IN  IF file_extension \in Supported
        THEN IF u.readable
             THEN [ok |-> TRUE, error |-> <<>>]
             ELSE [ok |-> FALSE, error |-> <<"Error processing file: ", "decoder error">>]
        ELSE [ok |-> FALSE,
              error |-> <<"Error processing file: ", "Unsupported file format: ",
                          file_extension>>]

(***************************************************************************)
(* The user-triggered actions and their handlers.                         *)
(***************************************************************************)
MarketKinds == {"CompetitorAnalysis", "MarketTrends", "SwotAnalysis", "RiskAssessment"}

\* the handlers whose completion call is inside a try block (lines 318-338
\* with 162-178, and 385-425); the others (lines 281, 457, 470, 481, 495) have none
CatchesCompletionError(kind) == kind \in {"DocumentProcessing", "ContractGeneration"}

\* the message of st.error for a failed completion call (lines 178 and 338, 425)
CompletionErrorMessage(kind) ==
    IF kind = "DocumentProcessing"
    THEN <<"Error processing document: ", "completion error">>
    ELSE <<"Error generating contract: ", "completion error">>

\* a variant in which process_document calls the service again after a failure
MutAfterCompletionError(kind) == IF kind = "DocumentProcessing" THEN "calling" ELSE "idle"

\* where the handler goes after a failed completion call: every one of them ends
AfterCompletionError(kind) == "idle"

\* line 251: if metrics
IsTruthy(m) == m.ok

VARIABLES
    pc,        \* "idle", or the place of the running handler
    action,    \* the kind of the action being handled, "none" before the first
    data,      \* the form values of the analytics page
    metrics,   \* what analyze_business_metrics returned
    upload,    \* the uploaded file of the document page
    requests,  \* requests sent to the completion service by the running handler
    shown,     \* what the handler has rendered on the page
    message,   \* the text of the st.error call, <<>> when there was none
    uncaught,  \* an exception left the handler
    pdf        \* the state of create_pdf

vars == <<pc, action, data, metrics, upload, requests, shown, message, uncaught, pdf>>

Init ==
    /\ pc = "idle"
    /\ action = "none"
    /\ data = NoData
    /\ metrics = None
    /\ upload = NoUpload
    /\ requests = 0
    /\ shown = {}
    /\ message = <<>>
    /\ uncaught = FALSE
    /\ pdf = NoPdf

\* Streamlit reruns the script on every interaction: nothing of the last run is kept
Rerun(kind) ==
    /\ pc = "idle"
    /\ action' = kind
    /\ requests' = 0
    /\ shown' = {}
    /\ message' = <<>>
    /\ uncaught' = FALSE
    /\ pdf' = NoPdf

\* line 236: the button "Analyze Business Metrics"
ClickAnalyze ==
    /\ Rerun("BusinessInsights")
    /\ pc' = "analyze"
    /\ data' = NoData
    /\ metrics' = None
    /\ upload' = NoUpload

\* lines 237-278: the form values, the metrics and, if there are any, the
\* metric cards
AnalyzeMetrics ==
    /\ pc = "analyze"
    /\ \E d \in MetricsInputs :
        /\ data' = d
        /\ metrics' = analyze_business_metrics(d)
    /\ IF IsTruthy(metrics')
       THEN /\ shown' = shown \cup {"metric_cards"}
            /\ message' = message
            /\ pc' = "calling"
       ELSE /\ shown' = shown \cup {"error"}
            /\ message' = metrics'.error
            /\ pc' = "idle"
    /\ UNCHANGED <<action, upload, requests, uncaught, pdf>>

\* lines 311-317: a file is in the uploader of the document page
UploadFile ==
    /\ Rerun("DocumentProcessing")
    /\ pc' = "upload"
    /\ data' = NoData
    /\ metrics' = None
    /\ upload' = NoUpload

\* lines 318-328 and 337-338: the file is read; the button "Process
\* Document" is pressed in this run or not
ProcessUpload ==
    /\ pc = "upload"
    /\ \E u \in Uploads : upload' = u
    /\ LET r == process_uploaded_file(upload')
       IN  IF r.ok
           THEN /\ shown' = shown \cup {"success"}
                /\ message' = message
                /\ pc' = IF upload'.button THEN "calling" ELSE "idle"
           ELSE /\ shown' = shown \cup {"error"}
                /\ message' = r.error
                /\ pc' = "idle"
    /\ UNCHANGED <<action, data, metrics, requests, uncaught, pdf>>

\* lines 383-387: the button "Generate Contract"
ClickGenerateContract ==
    /\ Rerun("ContractGeneration")
    /\ pc' = "calling"
    /\ data' = NoData
    /\ metrics' = None
    /\ upload' = NoUpload

\* lines 455, 468, 479, 493: the button of one of the four market analyses
ClickMarketAnalysis ==
    /\ \E kind \in MarketKinds : Rerun(kind)
    /\ pc' = "calling"
    /\ data' = NoData
    /\ metrics' = None
    /\ upload' = NoUpload

\* client.chat.completions.create(...) is entered: one blocking request
SendRequest ==
    /\ pc = "calling"
    /\ requests' = requests + 1
    /\ pc' = "awaiting"
    /\ UNCHANGED <<action, data, metrics, upload, shown, message, uncaught, pdf>>

\* the service answers with a text, and the handler renders it
CompletionReturns ==
    /\ pc = "awaiting"
    /\ action # "ContractGeneration"
    /\ shown' = shown \cup
            (CASE action = "BusinessInsights" -> {"insights", "gauge"}
               [] action = "DocumentProcessing" -> {"results"}
               [] OTHER -> {"analysis", "download_analysis"})
    /\ pc' = "idle"
    /\ UNCHANGED <<action, data, metrics, upload, requests, message, uncaught, pdf>>

\* lines 390-407: the contract text is previewed and create_pdf starts on it
ContractReturns ==
    /\ pc = "awaiting"
    /\ action = "ContractGeneration"
    /\ \E in \in PdfInputs : pdf' = create_pdf_begin(in[1], in[2])
    /\ shown' = shown \cup {"preview"}
    /\ pc' = "create_pdf"
    /\ UNCHANGED <<action, data, metrics, upload, requests, message, uncaught>>

\* the service call raises (network, authentication, rate limit)
CompletionFails ==
    /\ pc = "awaiting"
    /\ IF CatchesCompletionError(action)
       THEN /\ shown' = shown \cup {"error"}
            /\ message' = CompletionErrorMessage(action)
            /\ uncaught' = FALSE
       ELSE /\ uncaught' = TRUE
            /\ UNCHANGED <<shown, message>>
    /\ pc' = AfterCompletionError(action)
    /\ UNCHANGED <<action, data, metrics, upload, requests, pdf>>

\* lines 650-653
NextLine ==
    /\ pc = "create_pdf"
    /\ pdf.at = "line"
    /\ pdf.li < Len(pdf.lines)
    /\ pdf' = next_line(pdf)
    /\ UNCHANGED <<pc, action, data, metrics, upload, requests, shown, message, uncaught>>

\* lines 655-669
ProcessWord ==
    /\ pc = "create_pdf"
    /\ pdf.at = "word"
    /\ pdf.wi < Len(pdf.words)
    /\ pdf' = process_word(pdf)
    /\ UNCHANGED <<pc, action, data, metrics, upload, requests, shown, message, uncaught>>

\* lines 671-674
FinishLine ==
    /\ pc = "create_pdf"
    /\ pdf.at = "word"
    /\ pdf.wi = Len(pdf.words)
    /\ pdf' = finish_line(pdf)
    /\ UNCHANGED <<pc, action, data, metrics, upload, requests, shown, message, uncaught>>

\* lines 676-678, then the two download buttons of lines 408-422
SavePdf ==
    /\ pc = "create_pdf"
    /\ pdf.at = "line"
    /\ pdf.li = Len(pdf.lines)
    /\ pdf' = save(pdf)
    /\ shown' = shown \cup {"download_pdf", "download_text"}
    /\ pc' = "idle"
    /\ UNCHANGED <<action, data, metrics, upload, requests, message, uncaught>>

Next ==
    \/ ClickAnalyze
    \/ AnalyzeMetrics
    \/ UploadFile
    \/ ProcessUpload
    \/ ClickGenerateContract
    \/ ClickMarketAnalysis
    \/ SendRequest
    \/ CompletionReturns
    \/ ContractReturns
    \/ CompletionFails
    \/ NextLine
    \/ ProcessWord
    \/ FinishLine
    \/ SavePdf

Spec == Init /\ [][Next]_vars

(***************************************************************************)
(* create_pdf as a function of the content, applied to a content and to    *)
(* the same content with one more word.                                    *)
(***************************************************************************)
\* the contents to lengthen: the short ones, and MinRepeat..MaxRepeat source
\* lines of one word followed by at most MonoTailLen characters
MonoContents ==
    Str(MaxLen) \cup
        {Repeat(<<"a", "\n">>, n) \o tail : n \in MinRepeat..MaxRepeat, tail \in Str(MonoTailLen)}

InsertAt(s, p, ins) == SubSeq(s, 1, p) \o ins \o SubSeq(s, p + 1, Len(s))

\* the contents that are A with one more word, a word A already has, put with
\* a space or a line break in front of a word or at an end of A, within
\* MaxLen characters of the start or the end of A
Lengthened(A) ==
    LET ws == split(A)
        vocabulary == {ws[i] : i \in 1..Len(ws)}
        places == {p \in 0..Len(A) :
                    /\ p = 0 \/ A[p] \in Whitespace
                    /\ p <= MaxLen \/ p >= Len(A) - MaxLen}
    IN  {InsertAt(A, p, w \o <<sep>>) : p \in places, w \in vocabulary, sep \in Whitespace}
            \cup {A \o <<sep>> \o w : w \in vocabulary, sep \in Whitespace}

InitMono ==
    /\ pc = "original"
    /\ \E A \in MonoContents : pdf = create_pdf(A, Wide)
    /\ action = "none"
    /\ data = NoData
    /\ metrics = None
    /\ upload = NoUpload
    /\ requests = 0
    /\ shown = {}
    /\ message = <<>>
    /\ uncaught = FALSE

Lengthen ==
    /\ pc = "original"
    /\ \E B \in Lengthened(pdf.content) : pdf' = create_pdf(B, pdf.font)
    /\ pc' = "lengthened"
    /\ UNCHANGED <<action, data, metrics, upload, requests, shown, message, uncaught>>

NextMono == Lengthen

SpecMono == InitMono /\ [][NextMono]_vars

(***************************************************************************)
(* What a call of create_pdf has put on the canvas.                        *)
(***************************************************************************)
RECURSIVE Flatten(_)
Flatten(seqs) == IF seqs = <<>> THEN <<>> ELSE seqs[1] \o Flatten(Tail(seqs))

\* the drawString calls so far, in emission order
Draws(p) == Flatten(p.pages) \o p.page

\* the words create_pdf has still to place: the line buffer, the rest of the
\* current source line and the source lines to come
PendingWords(p) ==
    (IF p.at = "word"
     THEN p.current_line \o SubSeq(p.words, p.wi + 1, Len(p.words))
     ELSE <<>>)
        \o Flatten([i \in 1..(Len(p.lines) - p.li) |-> split(p.lines[p.li + i])])

\* ws occurs in all as a run of consecutive elements
IsRunOf(ws, all) ==
    \E k \in 0..(Len(all) - Len(ws)) : SubSeq(all, k + 1, k + Len(ws)) = ws

InCreatePdf == pdf.at \in {"line", "word", "saved"}

PrintableWidth == PageWidth - 2 * LeftMargin

(***************************************************************************)
(* C1.  No line is drawn below the bottom margin: every drawString call    *)
(* of create_pdf, for a wrapped line or for the last line of a source      *)
(* line, has y >= 50, because a page break resets y before the line is     *)
(* emitted.  The code checks y only after a wrapped line (line 666), so    *)
(* this fails for a content of 36 short source lines.                      *)
(***************************************************************************)
C1_NoLineBelowBottomMargin ==
    \A i \in 1..Len(Draws(pdf)) : Draws(pdf)[i].y >= BottomMargin

(***************************************************************************)
(* C2.  No word is split, lost, duplicated or reordered: every drawn line  *)
(* is a run of whole words of its source line joined by single spaces, and *)
(* the words drawn so far followed by the words still to place are the     *)
(* words of the content.                                                   *)
(***************************************************************************)
C2_WordsKeptWhole ==
    InCreatePdf =>
        LET ds == Draws(pdf)
            drawn == [i \in 1..Len(ds) |-> split(ds[i].text)]
            source == [l \in 1..Len(pdf.lines) |-> split(pdf.lines[l])]
        IN  /\ Flatten(drawn) \o PendingWords(pdf) = split(pdf.content)
            /\ \A i \in 1..Len(ds) :
                /\ ds[i].text = join(drawn[i])
                /\ IsRunOf(drawn[i], source[ds[i].line])

\* C2 witness: a finished document in which one source line was wrapped into two drawn lines
C2_Witness ==
    /\ pc = "idle"
    /\ pdf.at = "saved"
    /\ \E i \in 1..(Len(Draws(pdf)) - 1) :
        /\ Draws(pdf)[i].line = Draws(pdf)[i + 1].line
        /\ Draws(pdf)[i].text # <<>>
        /\ Len(split(pdf.content)) > Len(split(Draws(pdf)[i].text)) + 1

(***************************************************************************)
(* C3.  Each source line is wrapped on its own (the line buffer is empty   *)
(* when a source line starts), and a blank source line consumes one line   *)
(* slot: y is lower by 20 after it.  The code draws nothing and leaves y   *)
(* alone for a blank line (line 672), so the second part fails.            *)
(***************************************************************************)
C3_BlankLineConsumesSlot ==
    [][/\ (pdf.at = "line" /\ pdf'.at = "word") => pdf'.current_line = <<>>
       /\ (pdf.at = "word" /\ pdf.words = <<>> /\ pdf'.at = "line")
            => pdf'.y = pdf.y - LineHeight]_vars

\* the drawn line i is followed by a drawn line of the same source line
FollowedInLine(p, i) ==
    i < Len(Draws(p)) /\ Draws(p)[i].line = Draws(p)[i + 1].line

\* the drawn line i with the first word of the drawn line after it
WithNextWord(p, i) ==
    join(Append(split(Draws(p)[i].text), split(Draws(p)[i + 1].text)[1]))

\* 40 words of the reference scenario: 6 drawn lines, 7 words on each of the
\* first 5, each line 20 below the one before
ReferenceScenario(p) ==
    (p.at = "saved" /\ p.font = Mono6 /\ p.content = RefContent(40)) =>
        /\ Len(Draws(p)) = 6
        /\ \A i \in 1..5 : Len(split(Draws(p)[i].text)) = 7
        /\ \A i \in 1..5 : Draws(p)[i + 1].y = Draws(p)[i].y - 20

(***************************************************************************)
(* C4.  Greedy wrap, as claimed: every drawn line followed by another      *)
(* drawn line of the same source line measures at most the printable       *)
(* width, and with the first word of the next drawn line it would exceed   *)
(* it; the reference content of 40 words gives 6 drawn lines, 7 words on   *)
(* each full one, each 20 below the previous one.  A word wider than the   *)
(* printable width is drawn alone and measures more.                       *)
(***************************************************************************)
C4_GreedyAsClaimed ==
    /\ \A i \in 1..Len(Draws(pdf)) :
        FollowedInLine(pdf, i) =>
            /\ stringWidth(pdf.font, Draws(pdf)[i].text) <= PrintableWidth
            /\ stringWidth(pdf.font, WithNextWord(pdf, i)) > PrintableWidth
    /\ ReferenceScenario(pdf)

(***************************************************************************)
(* C4 as amended.  A drawn line of a single word may be wider than the     *)
(* printable width; every other drawn line that is followed by one of the  *)
(* same source line measures at most the printable width; in both cases    *)
(* the first word of the next drawn line would not have fitted.  The       *)
(* reference scenario is as claimed.                                       *)
(***************************************************************************)
C4_Greedy ==
    /\ \A i \in 1..Len(Draws(pdf)) :
        FollowedInLine(pdf, i) =>
            /\ Len(split(Draws(pdf)[i].text)) # 1
                => stringWidth(pdf.font, Draws(pdf)[i].text) <= PrintableWidth
            /\ stringWidth(pdf.font, WithNextWord(pdf, i)) > PrintableWidth
    /\ ReferenceScenario(pdf)

\* C4 witness: the reference scenario has been paginated
C4_Witness ==
    /\ pdf.at = "saved"
    /\ pdf.font = Mono6
    /\ pdf.content = RefContent(40)
    /\ Len(Draws(pdf)) = 6
    /\ FollowedInLine(pdf, 5)

(***************************************************************************)
(* C5.  Page-count monotonicity: a content with one more word of the same  *)
(* vocabulary never gives fewer pages than the content without it.         *)
(***************************************************************************)
C5_PageCountMonotone ==
    [][pc' = "lengthened" => Len(pdf'.pages) >= Len(pdf.pages)]_vars

(***************************************************************************)
(* C6.  The empty content gives exactly one page with no drawn line: no    *)
(* drawString call and no page break happen before save closes the page.   *)
(***************************************************************************)
C6_EmptyContent ==
    (InCreatePdf /\ pdf.content = <<>>) =>
        /\ Draws(pdf) = <<>>
        /\ pdf.pages = IF pdf.at = "saved" THEN << <<>> >> ELSE <<>>

\* C6 witness: create_pdf has returned for the empty content
C6_Witness == pc = "idle" /\ pdf.at = "saved" /\ pdf.content = <<>>

(***************************************************************************)
(* C7.  Every failure of the completion call is caught in the handler of   *)
(* the action and shown as an error message: no exception leaves a         *)
(* handler, and a handler whose request failed ends with st.error called.  *)
(* Only the document and the contract handlers have a try block; in the    *)
(* other five the exception leaves the handler.                            *)
(***************************************************************************)
ResultShown == shown \cap {"insights", "results", "analysis", "preview"} # {}

C7_ErrorsCaughtAndShown ==
    /\ ~uncaught
    /\ (pc = "idle" /\ requests > 0 /\ ~ResultShown)
            => ("error" \in shown /\ message # <<>>)

(***************************************************************************)
(* C8.  With previous_revenue, current_revenue, new_customers or           *)
(* total_investment equal to 0, analyze_business_metrics returns no        *)
(* metrics, and the page shows no metric card, no insights and no gauge    *)
(* and sends no request to the completion service.                         *)
(***************************************************************************)
C8_ZeroDivisorShowsNothing ==
    (/\ action = "BusinessInsights"
     /\ pc # "analyze"
     /\ \/ data.previous_revenue = 0
        \/ data.current_revenue = 0
        \/ data.new_customers = 0
        \/ data.total_investment = 0)
    => /\ ~metrics.ok
       /\ metrics.metrics = NoMetrics
       /\ shown \cap {"metric_cards", "insights", "gauge"} = {}
       /\ requests = 0
       /\ pc = "idle"

\* C8 witness: the handler has ended on a zero customer count, all other divisors non-zero
C8_Witness ==
    /\ action = "BusinessInsights"
    /\ pc = "idle"
    /\ data.new_customers = 0
    /\ data.previous_revenue > 0
    /\ data.current_revenue > 0
    /\ data.total_investment > 0
    /\ "error" \in shown

(***************************************************************************)
(* C9.  The error of a failed analyze_business_metrics names the field     *)
(* that was zero.  The message of the code is the text of Python's         *)
(* ZeroDivisionError, the same for all four fields.                        *)
(***************************************************************************)
DivisorFields == {"previous_revenue", "current_revenue", "new_customers", "total_investment"}

C9_ErrorNamesField ==
    (action = "BusinessInsights" /\ pc = "idle" /\ ~metrics.ok)
        => \E f \in DivisorFields :
            /\ data[f] = 0
            /\ \E i \in 1..Len(message) : message[i] = f

(***************************************************************************)
(* C10.  No automatic retry: a handler sends at most one request to the    *)
(* completion service, whether the request succeeds or fails; the count    *)
(* starts again only with the next action of the user.                     *)
(***************************************************************************)
C10_AtMostOneRequest == requests <= 1

\* C10 witness: a handler has ended after its one request failed
C10_Witness ==
    /\ pc = "idle"
    /\ requests = 1
    /\ ~ResultShown
    /\ action = "DocumentProcessing"
    /\ "error" \in shown

(***************************************************************************)
(* C11.  process_uploaded_file returns text only for the extensions .txt,  *)
(* .docx, .pdf and .pptx, in any letter case.  For every other extension   *)
(* the upload ends with an error shown to the user whose message names the *)
(* extension (in lower case, as it was compared), no success is shown and  *)
(* no request is sent to the completion service, whether or not the        *)
(* button was pressed.                                                     *)
(***************************************************************************)
SupportedAnyCase == {".txt", ".TXT", ".docx", ".pdf", ".Pdf", ".pptx"}

C11_UnsupportedExtension ==
    (action = "DocumentProcessing" /\ pc # "upload")
        => /\ "success" \in shown => upload.suffix \in SupportedAnyCase
           /\ (upload.suffix \in SupportedAnyCase /\ upload.readable)
                  => "success" \in shown
           /\ upload.suffix \notin SupportedAnyCase
                  => /\ pc = "idle"
                     /\ shown = {"error"}
                     /\ requests = 0
                     /\ Len(message) = 3
                     /\ message[2] = "Unsupported file format: "
                     /\ message[3] = lower(upload.suffix)

\* C11 witness: a .CSV file was uploaded with the button pressed, and the
\* handler has ended with the error that names .csv
C11_Witness ==
    /\ action = "DocumentProcessing"
    /\ pc = "idle"
    /\ upload.suffix = ".CSV"
    /\ upload.button
    /\ upload.readable
    /\ "error" \in shown
    /\ message[3] = ".csv"
    /\ requests = 0

(***************************************************************************)
(* C12.  On every page of create_pdf, the first and every page opened by   *)
(* a page break, the first drawn line is at y = page height - margin, each *)
(* further line of the page is exactly one line height (20) below the line *)
(* drawn before it, and every line is drawn at x = margin (50).            *)
(***************************************************************************)
\* the pages of the document: the closed ones and the one being drawn
AllPages(p) == Append(p.pages, p.page)

C12_LinePositions ==
    InCreatePdf =>
        LET pages == AllPages(pdf)
        IN  \A n \in 1..Len(pages) :
                LET page == pages[n]
                IN  /\ page # <<>> => page[1].y = PageHeight - 50
                    /\ \A i \in 1..Len(page) : page[i].x = 50
                    /\ \A i \in 1..(Len(page) - 1) : page[i + 1].y = page[i].y - 20

\* C12 witness: a saved document whose page break opened a second page, with
\* several lines on the first page and a line on the second
C12_Witness ==
    /\ pdf.at = "saved"
    /\ Len(pdf.pages) >= 2
    /\ Len(pdf.pages[1]) >= 2
    /\ pdf.pages[2] # <<>>
    /\ pdf.pages[2][1].y = 742

(***************************************************************************)
(* C13.  Every line create_pdf draws holds at least one word: a word wider *)
(* than the printable width is drawn alone and no empty line is drawn      *)
(* before it.  The code draws the line buffer as it is after the pop of    *)
(* line 659, which is empty when the over-wide word is the first word of   *)
(* its source line.                                                        *)
(***************************************************************************)
C13_NoEmptyDrawnLine ==
    InCreatePdf =>
        LET draws == Draws(pdf)
        IN  \A i \in 1..Len(draws) : split(draws[i].text) # <<>>

====
